---- MODULE Spec2Model ----
(***************************************************************************)
(* Model of lib/model/service_map.go: serviceMap[K, S], a map of keys to   *)
(* suture services that starts and stops them on a private Supervisor.     *)
(*                                                                         *)
(* The serviceMap itself (Add, Get, Remove, RemoveAndWait, Each, Serve) is *)
(* translated from service_map.go.  The suture Supervisor and the services *)
(* it runs are collaborators whose source is not part of the repository;   *)
(* they are modelled from the interface contract of the specification      *)
(* (sections 4.1, 5 and 6).                                                *)
(***************************************************************************)
EXTENDS Integers, Sequences, FiniteSets, TLC

\* ---------------------------------------------------------------- bounds
MaxTokens == 3      \* units the Supervisor is asked to start in one run
MaxTimeout == 1     \* longest timeout passed to RemoveAndWait, in ticks

\* K and S are type parameters; two keys and two services stand for them.
Keys == {"a", "b"}
Services == {"svc1", "svc2"}
\* The goroutines that call into one serviceMap without synchronisation.
Threads == {"t1", "t2"}
\* The key their calls contend for.
SharedKeys == {"a"}
Timeouts == 0..MaxTimeout

\* The zero values of K, S and suture.ServiceToken.
ZeroService == "zero"
NoKey == "none"
NoToken == 0

VARIABLES
    services,   \* serviceMap.services : map[K]S
    tokens,     \* serviceMap.tokens   : map[K]suture.ServiceToken
    units,      \* the Supervisor's units, indexed by the token it handed out
    serve,      \* position of Serve: "idle", "running", "stopping", "returned"
    outcome,    \* what the Supervisor's run loop will report: "none", "nil", "err"
    serveRet,   \* what serviceMap.Serve returned: "none", "nil", "err"
    pc,         \* position of the single caller: "idle" or "waiting"
    wait,       \* the pending RemoveAndWait: its key, the handle it waits
                \* for and the time left
    hist,       \* per key, what the calls made so far amount to: the service of
                \* the latest Add, or Removed once Remove or RemoveAndWait was
                \* called after it; no entry for a key never named in a call
    calls,      \* calls to the Supervisor and the Event Logger issued by the
                \* last registry call, in order
    last,       \* the last registry call: its name, arguments and results
    th,         \* per calling thread, the statement it is at and its locals,
                \* when callers do not keep the single-writer discipline
    overlap     \* whether two calls were ever in progress at once

vars == <<services, tokens, units, serve, outcome, serveRet, pc, wait,
          hist, calls, last, th, overlap>>

\* ------------------------------------------------------------ map helpers
Put(m, k, v) == [x \in DOMAIN m \cup {k} |-> IF x = k THEN v ELSE m[x]]
\* A faulty delete that drops every entry.
DeleteAll(m, k) == [x \in {} |-> m[x]]
Delete(m, k) == [x \in DOMAIN m \ {k} |-> m[x]]
Range(f) == {f[x] : x \in DOMAIN f}
EmptyMap == [x \in {} |-> 0]

Call(op, tok, svc) == [op |-> op, tok |-> tok, svc |-> svc]
CallsOf(op) == {i \in DOMAIN calls : calls[i].op = op}

Removed == "removed"
NoWait == [k |-> NoKey, tok |-> NoToken, timer |-> 0]
NoThread == [at |-> "idle", op |-> "none", k |-> NoKey, v |-> ZeroService,
             tok |-> NoToken, ok |-> FALSE]
NoCall == [name |-> "none", k |-> NoKey, v |-> ZeroService, occupied |-> FALSE,
           found |-> FALSE, tok |-> NoToken, how |-> "none", visited |-> <<>>]

\* ------------------------------------------------- Supervisor (collaborator)
\* Add(unit) -> handle: the unit is started at once when the run loop is
\* running, and is kept for the run loop to start otherwise.  A unit records
\* the key it was added for; the Supervisor itself makes no use of it.
SupAdd(us, v, k) ==
    Append(us, [svc |-> v, key |-> k, removed |-> FALSE,
                run |-> IF serve = "running" THEN "running" ELSE "pending"])

\* Remove(handle): asynchronous; a running unit is told to stop, a unit that
\* was never started is discarded.  The Supervisor keeps nothing of a unit
\* that was removed and has stopped.
Discarded == [svc |-> ZeroService, key |-> NoKey, removed |-> TRUE, run |-> "stopped"]

StopRequested(unit) ==
    CASE unit.run = "pending" -> Discarded
      [] unit.run = "stopped" -> Discarded
      [] unit.run = "running" -> [unit EXCEPT !.removed = TRUE, !.run = "stopping"]
      [] OTHER -> [unit EXCEPT !.removed = TRUE]

SupRemove(us, t) == [us EXCEPT ![t] = StopRequested(@)]

Live(run) == run \in {"running", "stopping"}

\* ------------------------------------------------------------------- Init
Init ==
    /\ services = EmptyMap
    /\ tokens = EmptyMap
    /\ units = <<>>
    /\ serve = "idle"
    /\ outcome = "none"
    /\ serveRet = "none"
    /\ pc = "idle"
    /\ wait = NoWait
    /\ hist = EmptyMap
    /\ calls = <<>>
    /\ last = NoCall
    /\ th = [p \in Threads |-> NoThread]
    /\ overlap = FALSE

\* -------------------------------------------------------------- serviceMap
\* Faulty variants of Add, used to show that the properties below depend on
\* what Add does.  AddNoStop leaves the old occupant on the Supervisor;
\* AddNoLog replaces silently; AddStartsFirst starts the new service before
\* it stops the old one.
AddNoStop(k, v) ==
    /\ pc = "idle"
    /\ Len(units) < MaxTokens
    /\ LET occupied == k \in DOMAIN tokens
           stopped == units
           started == SupAdd(stopped, v, k)
           tok == Len(started)
       IN /\ units' = started
          /\ services' = Put(services, k, v)
          /\ tokens' = Put(tokens, k, tok)
          /\ calls' = (IF occupied
                         THEN <<Call("Log", NoToken, ZeroService)>>
                         ELSE <<>>) \o <<Call("Add", tok, v)>>
          /\ last' = [NoCall EXCEPT !.name = "Add", !.k = k, !.v = v,
                                    !.occupied = occupied,
                                    !.tok = IF occupied THEN tokens[k] ELSE NoToken]
    /\ UNCHANGED <<serve, outcome, serveRet, pc, wait>>
    /\ hist' = Put(hist, k, v)
    /\ UNCHANGED <<th, overlap>>

AddNoLog(k, v) ==
    /\ pc = "idle"
    /\ Len(units) < MaxTokens
    /\ LET occupied == k \in DOMAIN tokens
           stopped == IF occupied THEN SupRemove(units, tokens[k]) ELSE units
           started == SupAdd(stopped, v, k)
           tok == Len(started)
       IN /\ units' = started
          /\ services' = Put(services, k, v)
          /\ tokens' = Put(tokens, k, tok)
          /\ calls' = (IF occupied
                         THEN <<Call("Remove", tokens[k], ZeroService)>>
                         ELSE <<>>) \o <<Call("Add", tok, v)>>
          /\ last' = [NoCall EXCEPT !.name = "Add", !.k = k, !.v = v,
                                    !.occupied = occupied,
                                    !.tok = IF occupied THEN tokens[k] ELSE NoToken]
    /\ UNCHANGED <<serve, outcome, serveRet, pc, wait>>
    /\ hist' = Put(hist, k, v)
    /\ UNCHANGED <<th, overlap>>

\* A faulty variant that notifies on every Add, replacement or not.
AddAlwaysLogs(k, v) ==
    /\ pc = "idle"
    /\ Len(units) < MaxTokens
    /\ LET occupied == k \in DOMAIN tokens
           stopped == IF occupied THEN SupRemove(units, tokens[k]) ELSE units
           started == SupAdd(stopped, v, k)
           tok == Len(started)
       IN /\ units' = started
          /\ services' = Put(services, k, v)
          /\ tokens' = Put(tokens, k, tok)
          /\ calls' = (IF occupied
                         THEN <<Call("Remove", tokens[k], ZeroService)>>
                         ELSE <<>>)
                      \o <<Call("Log", NoToken, ZeroService), Call("Add", tok, v)>>
          /\ last' = [NoCall EXCEPT !.name = "Add", !.k = k, !.v = v,
                                    !.occupied = occupied,
                                    !.tok = IF occupied THEN tokens[k] ELSE NoToken]
    /\ UNCHANGED <<serve, outcome, serveRet, pc, wait>>
    /\ hist' = Put(hist, k, v)
    /\ UNCHANGED <<th, overlap>>

AddStartsFirst(k, v) ==
    /\ pc = "idle"
    /\ Len(units) < MaxTokens
    /\ LET occupied == k \in DOMAIN tokens
           stopped == IF occupied THEN SupRemove(units, tokens[k]) ELSE units
           started == SupAdd(stopped, v, k)
           tok == Len(started)
       IN /\ units' = started
          /\ services' = Put(services, k, v)
          /\ tokens' = Put(tokens, k, tok)
          /\ calls' = <<Call("Add", tok, v)>> \o
                      (IF occupied
                         THEN <<Call("Remove", tokens[k], ZeroService),
                                Call("Log", NoToken, ZeroService)>>
                         ELSE <<>>)
          /\ last' = [NoCall EXCEPT !.name = "Add", !.k = k, !.v = v,
                                    !.occupied = occupied,
                                    !.tok = IF occupied THEN tokens[k] ELSE NoToken]
    /\ UNCHANGED <<serve, outcome, serveRet, pc, wait>>
    /\ hist' = Put(hist, k, v)
    /\ UNCHANGED <<th, overlap>>

Add(k, v) ==
    /\ pc = "idle"
    /\ Len(units) < MaxTokens
    /\ LET occupied == k \in DOMAIN tokens
           stopped == IF occupied THEN SupRemove(units, tokens[k]) ELSE units
           started == SupAdd(stopped, v, k)
           tok == Len(started)
       IN /\ units' = started
          /\ services' = Put(services, k, v)
          /\ tokens' = Put(tokens, k, tok)
          /\ calls' = (IF occupied
                         THEN <<Call("Remove", tokens[k], ZeroService),
                                Call("Log", NoToken, ZeroService)>>
                         ELSE <<>>) \o <<Call("Add", tok, v)>>
          /\ last' = [NoCall EXCEPT !.name = "Add", !.k = k, !.v = v,
                                    !.occupied = occupied,
                                    !.tok = IF occupied THEN tokens[k] ELSE NoToken]
    /\ UNCHANGED <<serve, outcome, serveRet, pc, wait>>
    /\ hist' = Put(hist, k, v)
    /\ UNCHANGED <<th, overlap>>

\* v, ok = s.services[k]
GetResult(k) ==
    IF k \in DOMAIN services THEN <<services[k], TRUE>> ELSE <<ZeroService, FALSE>>

\* A faulty variant of Get that reports every key as present.
GetAlwaysOk(k) ==
    /\ pc = "idle"
    /\ last' = [NoCall EXCEPT !.name = "Get", !.k = k,
                              !.occupied = k \in DOMAIN services,
                              !.v = GetResult(k)[1], !.found = TRUE]
    /\ calls' = <<>>
    /\ UNCHANGED <<services, tokens, units, serve, outcome, serveRet, pc, wait>>
    /\ UNCHANGED hist
    /\ UNCHANGED <<th, overlap>>

Get(k) ==
    /\ pc = "idle"
    /\ last' = [NoCall EXCEPT !.name = "Get", !.k = k,
                              !.occupied = k \in DOMAIN services,
                              !.v = GetResult(k)[1], !.found = GetResult(k)[2]]
    /\ calls' = <<>>
    /\ UNCHANGED <<services, tokens, units, serve, outcome, serveRet, pc, wait>>
    /\ UNCHANGED hist
    /\ UNCHANGED <<th, overlap>>

\* Faulty variants of Remove.  RemoveKeepsToken forgets delete(s.tokens, k);
\* RemoveNoStop forgets s.supervisor.Remove(tok); RemoveAlwaysFound sets
\* found outside the if.
RemoveKeepsToken(k) ==
    /\ pc = "idle"
    /\ LET ok == k \in DOMAIN tokens
       IN /\ units' = IF ok THEN SupRemove(units, tokens[k]) ELSE units
          /\ calls' = IF ok THEN <<Call("Remove", tokens[k], ZeroService)>> ELSE <<>>
          /\ last' = [NoCall EXCEPT !.name = "Remove", !.k = k, !.occupied = ok,
                                    !.found = ok,
                                    !.tok = IF ok THEN tokens[k] ELSE NoToken]
    /\ services' = Delete(services, k)
    /\ tokens' = tokens
    /\ UNCHANGED <<serve, outcome, serveRet, pc, wait>>
    /\ hist' = Put(hist, k, Removed)
    /\ UNCHANGED <<th, overlap>>

RemoveNoStop(k) ==
    /\ pc = "idle"
    /\ LET ok == k \in DOMAIN tokens
       IN /\ units' = units
          /\ calls' = <<>>
          /\ last' = [NoCall EXCEPT !.name = "Remove", !.k = k, !.occupied = ok,
                                    !.found = ok,
                                    !.tok = IF ok THEN tokens[k] ELSE NoToken]
    /\ services' = Delete(services, k)
    /\ tokens' = Delete(tokens, k)
    /\ UNCHANGED <<serve, outcome, serveRet, pc, wait>>
    /\ hist' = Put(hist, k, Removed)
    /\ UNCHANGED <<th, overlap>>

RemoveAlwaysFound(k) ==
    /\ pc = "idle"
    /\ LET ok == k \in DOMAIN tokens
       IN /\ units' = IF ok THEN SupRemove(units, tokens[k]) ELSE units
          /\ calls' = IF ok THEN <<Call("Remove", tokens[k], ZeroService)>> ELSE <<>>
          /\ last' = [NoCall EXCEPT !.name = "Remove", !.k = k, !.occupied = ok,
                                    !.found = TRUE,
                                    !.tok = IF ok THEN tokens[k] ELSE NoToken]
    /\ services' = Delete(services, k)
    /\ tokens' = Delete(tokens, k)
    /\ UNCHANGED <<serve, outcome, serveRet, pc, wait>>
    /\ hist' = Put(hist, k, Removed)
    /\ UNCHANGED <<th, overlap>>

Remove(k) ==
    /\ pc = "idle"
    /\ LET ok == k \in DOMAIN tokens
       IN /\ units' = IF ok THEN SupRemove(units, tokens[k]) ELSE units
          /\ calls' = IF ok THEN <<Call("Remove", tokens[k], ZeroService)>> ELSE <<>>
          /\ last' = [NoCall EXCEPT !.name = "Remove", !.k = k, !.occupied = ok,
                                    !.found = ok,
                                    !.tok = IF ok THEN tokens[k] ELSE NoToken]
    /\ services' = Delete(services, k)
    /\ tokens' = Delete(tokens, k)
    /\ UNCHANGED <<serve, outcome, serveRet, pc, wait>>
    /\ hist' = Put(hist, k, Removed)
    /\ UNCHANGED <<th, overlap>>

\* A faulty variant of RemoveAndWait that passes no bound to the Supervisor.
RemoveAndWaitForever(k, timeout) ==
    /\ pc = "idle"
    /\ LET ok == k \in DOMAIN tokens
       IN IF ok
            THEN /\ units' = SupRemove(units, tokens[k])
                 /\ calls' = <<Call("RemoveAndWait", tokens[k], ZeroService)>>
                 /\ wait' = [k |-> k, tok |-> tokens[k], timer |-> -1]
                 /\ pc' = "waiting"
                 /\ last' = [NoCall EXCEPT !.name = "RemoveAndWait", !.k = k,
                                           !.occupied = TRUE, !.found = TRUE,
                                           !.tok = tokens[k], !.how = "waiting"]
                 /\ UNCHANGED <<services, tokens>>
            ELSE /\ services' = Delete(services, k)
                 /\ tokens' = Delete(tokens, k)
                 /\ calls' = <<>>
                 /\ last' = [NoCall EXCEPT !.name = "RemoveAndWait", !.k = k]
                 /\ UNCHANGED <<units, wait, pc>>
    /\ UNCHANGED <<serve, outcome, serveRet>>
    /\ hist' = Put(hist, k, Removed)
    /\ UNCHANGED <<th, overlap>>

\* RemoveAndWait up to the blocking call s.supervisor.RemoveAndWait(tok,
\* timeout); with no service at the key it runs to its return at once.
RemoveAndWait(k, timeout) ==
    /\ pc = "idle"
    /\ LET ok == k \in DOMAIN tokens
       IN IF ok
            THEN /\ units' = SupRemove(units, tokens[k])
                 /\ calls' = <<Call("RemoveAndWait", tokens[k], ZeroService)>>
                 /\ wait' = [k |-> k, tok |-> tokens[k], timer |-> timeout]
                 /\ pc' = "waiting"
                 /\ last' = [NoCall EXCEPT !.name = "RemoveAndWait", !.k = k,
                                           !.occupied = TRUE, !.found = TRUE,
                                           !.tok = tokens[k], !.how = "waiting"]
                 /\ UNCHANGED <<services, tokens>>
            ELSE /\ services' = Delete(services, k)
                 /\ tokens' = Delete(tokens, k)
                 /\ calls' = <<>>
                 /\ last' = [NoCall EXCEPT !.name = "RemoveAndWait", !.k = k]
                 /\ UNCHANGED <<units, wait, pc>>
    /\ UNCHANGED <<serve, outcome, serveRet>>
    /\ hist' = Put(hist, k, Removed)
    /\ UNCHANGED <<th, overlap>>

\* The Supervisor's wait is over: the unit has stopped, or the timeout elapsed.
WaitOver == units[wait.tok].run = "stopped" \/ wait.timer = 0

\* A faulty variant that deletes the entries only when the stop was confirmed.
RemoveAndWaitReturnKeepsOnTimeout ==
    /\ pc = "waiting"
    /\ WaitOver
    /\ services' = IF units[wait.tok].run = "stopped"
                     THEN Delete(services, wait.k) ELSE services
    /\ tokens' = IF units[wait.tok].run = "stopped"
                   THEN Delete(tokens, wait.k) ELSE tokens
    /\ last' = [last EXCEPT !.how = IF units[wait.tok].run = "stopped"
                                      THEN "stopped" ELSE "timeout"]
    /\ pc' = "idle"
    /\ wait' = NoWait
    /\ UNCHANGED <<units, serve, outcome, serveRet, calls>>
    /\ UNCHANGED hist
    /\ UNCHANGED <<th, overlap>>

\* RemoveAndWait from the return of the blocking call to its own return.
\* A faulty variant that reports a timed-out stop as "not found".
RemoveAndWaitReturnReportsTimeout ==
    /\ pc = "waiting"
    /\ WaitOver
    /\ services' = Delete(services, wait.k)
    /\ tokens' = Delete(tokens, wait.k)
    /\ last' = [last EXCEPT !.how = IF units[wait.tok].run = "stopped"
                                      THEN "stopped" ELSE "timeout",
                            !.found = units[wait.tok].run = "stopped"]
    /\ pc' = "idle"
    /\ wait' = NoWait
    /\ UNCHANGED <<units, serve, outcome, serveRet, calls>>
    /\ UNCHANGED hist
    /\ UNCHANGED <<th, overlap>>

RemoveAndWaitReturn ==
    /\ pc = "waiting"
    /\ WaitOver
    /\ services' = Delete(services, wait.k)
    /\ tokens' = Delete(tokens, wait.k)
    /\ last' = [last EXCEPT !.how = IF units[wait.tok].run = "stopped"
                                      THEN "stopped" ELSE "timeout"]
    /\ pc' = "idle"
    /\ wait' = NoWait
    /\ UNCHANGED <<units, serve, outcome, serveRet, calls>>
    /\ UNCHANGED hist
    /\ UNCHANGED <<th, overlap>>

\* The orders in which a range over a map with the keys S can visit them.
RECURSIVE Orders(_)
Orders(S) ==
    IF S = {} THEN {<<>>}
    ELSE UNION {{<<x>> \o o : o \in Orders(S \ {x})} : x \in S}

\* Each with a loop that misses the first entry of the iteration.
EachSkipsFirst ==
    /\ pc = "idle"
    /\ \E order \in Orders(DOMAIN services) :
          last' = [NoCall EXCEPT !.name = "Each",
                     !.visited = [i \in 1..(Len(order) - 1) |->
                                     <<order[i + 1], services[order[i + 1]]>>]]
    /\ calls' = <<>>
    /\ UNCHANGED <<services, tokens, units, serve, outcome, serveRet, pc, wait>>
    /\ UNCHANGED hist
    /\ UNCHANGED <<th, overlap>>

\* Each calls fn once per entry of s.services, in the map's iteration order,
\* which Go leaves unspecified.
Each ==
    /\ pc = "idle"
    /\ \E order \in Orders(DOMAIN services) :
          last' = [NoCall EXCEPT !.name = "Each",
                     !.visited = [i \in DOMAIN order |->
                                     <<order[i], services[order[i]]>>]]
    /\ calls' = <<>>
    /\ UNCHANGED <<services, tokens, units, serve, outcome, serveRet, pc, wait>>
    /\ UNCHANGED hist
    /\ UNCHANGED <<th, overlap>>

\* Serve delegates to s.supervisor.Serve(ctx): the run loop starts every unit
\* added so far.
Serve ==
    /\ serve = "idle"
    /\ serve' = "running"
    /\ units' = [t \in DOMAIN units |->
                    IF units[t].run = "pending"
                      THEN [units[t] EXCEPT !.run = "running"] ELSE units[t]]
    /\ UNCHANGED <<services, tokens, outcome, serveRet, pc, wait, calls, last>>
    /\ UNCHANGED hist
    /\ UNCHANGED <<th, overlap>>

\* The Supervisor's run loop returns once it was told to end and every unit
\* it was running has stopped.
SupervisorDone ==
    /\ serve = "stopping"
    /\ \A t \in DOMAIN units : ~Live(units[t].run)

\* A faulty variant that reports the cancellation itself as an error.
ServeReturnsCtxErr ==
    /\ SupervisorDone
    /\ serve' = "returned"
    /\ serveRet' = "err"
    /\ UNCHANGED <<services, tokens, units, outcome, pc, wait, calls,
                   last>>
    /\ UNCHANGED hist
    /\ UNCHANGED <<th, overlap>>

\* A faulty variant that swallows the Supervisor's error.
ServeReturnMasksErr ==
    /\ SupervisorDone
    /\ serve' = "returned"
    /\ serveRet' = "nil"
    /\ UNCHANGED <<services, tokens, units, outcome, pc, wait, calls,
                   last>>
    /\ UNCHANGED hist
    /\ UNCHANGED <<th, overlap>>

\* A faulty variant that empties the registry when the run loop ends.
ServeReturnClearsMaps ==
    /\ SupervisorDone
    /\ serve' = "returned"
    /\ serveRet' = outcome
    /\ services' = EmptyMap
    /\ tokens' = EmptyMap
    /\ UNCHANGED <<units, outcome, pc, wait, calls, last>>
    /\ UNCHANGED hist
    /\ UNCHANGED <<th, overlap>>

\* Serve returns what s.supervisor.Serve(ctx) returned, when it returns.
ServeReturn ==
    /\ SupervisorDone
    /\ serve' = "returned"
    /\ serveRet' = outcome
    /\ UNCHANGED <<services, tokens, units, outcome, pc, wait, calls,
                   last>>
    /\ UNCHANGED hist
    /\ UNCHANGED <<th, overlap>>

\* ---------------------------------------------------------- environment
\* The run loop ends: every running unit is told to stop.
StopSupervisor(result) ==
    /\ serve = "running"
    /\ serve' = "stopping"
    /\ outcome' = result
    /\ units' = [t \in DOMAIN units |->
                    [units[t] EXCEPT !.run = IF @ = "running" THEN "stopping" ELSE @]]
    /\ UNCHANGED <<services, tokens, serveRet, pc, wait, calls, last>>
    /\ UNCHANGED hist
    /\ UNCHANGED <<th, overlap>>

\* The cancellation signal of Serve's context fires.
Cancel == StopSupervisor("nil")

\* The Supervisor's run loop fails on its own.
SupervisorFail == StopSupervisor("err")

\* A service that was told to stop returns from its Serve.
ServiceStopped(t) ==
    /\ t \in DOMAIN units
    /\ units[t].run = "stopping"
    /\ units' = [units EXCEPT ![t] = IF @.removed THEN Discarded
                                                 ELSE [@ EXCEPT !.run = "stopped"]]
    /\ UNCHANGED <<services, tokens, serve, outcome, serveRet, pc, wait,
                   calls, last>>
    /\ UNCHANGED hist
    /\ UNCHANGED <<th, overlap>>

\* Time passes while the Supervisor waits in RemoveAndWait.
Tick ==
    /\ pc = "waiting"
    /\ wait.timer > 0
    /\ wait' = [wait EXCEPT !.timer = @ - 1]
    /\ UNCHANGED <<services, tokens, units, serve, outcome, serveRet, pc,
                   calls, last>>
    /\ UNCHANGED hist
    /\ UNCHANGED <<th, overlap>>

Next ==
    \/ \E k \in Keys, v \in Services : Add(k, v)
    \/ \E k \in Keys : Get(k)
    \/ \E k \in Keys : Remove(k)
    \/ \E k \in Keys, timeout \in Timeouts : RemoveAndWait(k, timeout)
    \/ RemoveAndWaitReturn
    \/ Each
    \/ Serve
    \/ ServeReturn
    \/ Cancel
    \/ SupervisorFail
    \/ \E t \in 1..MaxTokens : ServiceStopped(t)
    \/ Tick

Spec == Init /\ [][Next]_vars

\* Time passes and the blocked caller is scheduled; services need not stop.
FairSpec == Spec /\ WF_vars(Tick) /\ WF_vars(RemoveAndWaitReturn)

\* In addition every service is cooperative: told to stop, it stops; and the
\* Supervisor's run loop is scheduled.
CoopSpec ==
    /\ FairSpec
    /\ \A t \in 1..MaxTokens : WF_vars(ServiceStopped(t))
    /\ WF_vars(ServeReturn)

\* ------------------------------------------- callers without discipline
\* The same Add and Remove, run by several goroutines with no lock: a step is
\* one statement of service_map.go, and the statements of different calls
\* interleave.  The single caller of the actions above stays idle.
Busy(p) == th[p].at # "idle"
AddsInProgress == Cardinality({p \in Threads : Busy(p) /\ th[p].op = "Add"})
Goto(p, at) == th' = [th EXCEPT ![p].at = at]
Return(p) == th' = [th EXCEPT ![p] = [NoThread EXCEPT !.op = th[p].op]]
Begin(p, op, k, v, at) ==
    /\ pc = "idle"
    /\ ~Busy(p)
    /\ th' = [th EXCEPT ![p] = [NoThread EXCEPT !.at = at, !.op = op,
                                                !.k = k, !.v = v]]
    /\ overlap' = (overlap \/ \E q \in Threads \ {p} : Busy(q))
    /\ UNCHANGED <<services, tokens, units, serve, outcome, serveRet, pc,
                   wait, hist, calls, last>>

\* A goroutine enters Add(k, v).
BeginAdd(p, k, v) ==
    /\ Len(units) + AddsInProgress < MaxTokens
    /\ Begin(p, "Add", k, v, "add44")

\* A goroutine enters Remove(k).
BeginRemove(p, k) == Begin(p, "Remove", k, ZeroService, "rem64")

\* tok, ok := s.tokens[k], of Add and of Remove.
ReadToken(p, at, found, absent) ==
    /\ th[p].at = at
    /\ LET ok == th[p].k \in DOMAIN tokens
       IN th' = [th EXCEPT ![p].ok = ok,
                           ![p].tok = IF ok THEN tokens[th[p].k] ELSE NoToken,
                           ![p].at = IF ok THEN found ELSE absent]
    /\ UNCHANGED <<services, tokens, units, serve, outcome, serveRet, pc,
                   wait, hist, calls, last, overlap>>

AddRead(p) == ReadToken(p, "add44", "add46", "add49")
RemoveRead(p) == ReadToken(p, "rem64", "rem66", "rem68")

\* A faulty stop statement that leaves the unit alone.
StopTokenSkipped(p, at, next) ==
    /\ th[p].at = at
    /\ Goto(p, next)
    /\ UNCHANGED <<services, tokens, units, serve, outcome, serveRet, pc,
                   wait, hist, calls, last, overlap>>

\* s.supervisor.Remove(tok), of Add and of Remove.
StopToken(p, at, next) ==
    /\ th[p].at = at
    /\ units' = SupRemove(units, th[p].tok)
    /\ Goto(p, next)
    /\ UNCHANGED <<services, tokens, serve, outcome, serveRet, pc, wait,
                   hist, calls, last, overlap>>

AddStop(p) == StopToken(p, "add46", "add47")
RemoveStop(p) == StopToken(p, "rem66", "rem68")

\* s.eventLogger.Log(...)
AddLog(p) ==
    /\ th[p].at = "add47"
    /\ Goto(p, "add49")
    /\ UNCHANGED <<services, tokens, units, serve, outcome, serveRet, pc,
                   wait, hist, calls, last, overlap>>

\* s.services[k] = v
AddStore(p) ==
    /\ th[p].at = "add49"
    /\ services' = Put(services, th[p].k, th[p].v)
    /\ Goto(p, "add50")
    /\ UNCHANGED <<tokens, units, serve, outcome, serveRet, pc, wait, hist,
                   calls, last, overlap>>

\* s.tokens[k] = s.supervisor.Add(v), and Add returns.
AddStart(p) ==
    /\ th[p].at = "add50"
    /\ units' = SupAdd(units, th[p].v, th[p].k)
    /\ tokens' = Put(tokens, th[p].k, Len(units'))
    /\ Return(p)
    /\ UNCHANGED <<services, serve, outcome, serveRet, pc, wait, hist,
                   calls, last, overlap>>

\* delete(s.services, k)
RemoveServices(p) ==
    /\ th[p].at = "rem68"
    /\ services' = Delete(services, th[p].k)
    /\ Goto(p, "rem69")
    /\ UNCHANGED <<tokens, units, serve, outcome, serveRet, pc, wait, hist,
                   calls, last, overlap>>

\* delete(s.tokens, k), and Remove returns ok.
RemoveTokens(p) ==
    /\ th[p].at = "rem69"
    /\ tokens' = Delete(tokens, th[p].k)
    /\ Return(p)
    /\ UNCHANGED <<services, units, serve, outcome, serveRet, pc, wait,
                   hist, calls, last, overlap>>

\* The statements that access a map, and those that write it.
MapAt(at) == IF at \in {"add44", "add50", "rem64", "rem69"} THEN "tokens"
             ELSE IF at \in {"add49", "rem68"} THEN "services" ELSE "none"
Writes(at) == at \in {"add49", "add50", "rem68", "rem69"}

\* Two goroutines reach accesses of the same map, one of them a write, at the
\* same time: a data race, on which the Go runtime may abort the process
\* ("concurrent map writes") instead of running one access after the other.
MapFault ==
    /\ \E p, q \in Threads :
          /\ p # q
          /\ MapAt(th[p].at) # "none"
          /\ MapAt(th[p].at) = MapAt(th[q].at)
          /\ Writes(th[p].at)
    /\ th' = [p \in Threads |-> [NoThread EXCEPT !.at = "fatal"]]
    /\ UNCHANGED <<services, tokens, units, serve, outcome, serveRet, pc,
                   wait, hist, calls, last, overlap>>

ConcNext ==
    \/ \E p \in Threads, k \in SharedKeys, v \in Services : BeginAdd(p, k, v)
    \/ \E p \in Threads, k \in SharedKeys : BeginRemove(p, k)
    \/ \E p \in Threads : AddRead(p)
    \/ \E p \in Threads : AddStop(p)
    \/ \E p \in Threads : AddLog(p)
    \/ \E p \in Threads : AddStore(p)
    \/ \E p \in Threads : AddStart(p)
    \/ \E p \in Threads : RemoveRead(p)
    \/ \E p \in Threads : RemoveStop(p)
    \/ \E p \in Threads : RemoveServices(p)
    \/ \E p \in Threads : RemoveTokens(p)
    \/ MapFault
    \/ Serve
    \/ \E t \in 1..MaxTokens : ServiceStopped(t)

ConcSpec == Init /\ [][ConcNext]_vars

\* ------------------------------------------------------------ properties
Tracked == Range(tokens)
UnitsOf(k) == {t \in DOMAIN units : units[t].key = k}
Untracked(t) == t \in DOMAIN units /\ t \notin Tracked

\* C1: after every call, services and tokens have the same set of keys.
C1_MapConsistency == DOMAIN services = DOMAIN tokens

C1_Witness ==
    /\ last.name = "Remove"
    /\ last.found
    /\ DOMAIN services # {}
    /\ last.k \notin DOMAIN tokens

\* C2 as stated: for every key, at most one service registered under it is
\* active, that is started on the Supervisor and not yet actually stopped.
C2_OneActivePerKey ==
    \A k \in Keys : Cardinality({t \in UnitsOf(k) : Live(units[t].run)}) <= 1

\* C2 as amended: for every key, at most one service registered under it has
\* been added to the Supervisor and not yet been asked to stop; a replaced
\* occupant may still be stopping while its successor runs.
C2_OneUnstoppedPerKey ==
    \A k \in Keys : Cardinality({t \in UnitsOf(k) : ~units[t].removed}) <= 1

C2_Witness ==
    /\ last.name = "Add"
    /\ last.occupied
    /\ units[last.tok].run = "stopping"
    /\ units[tokens[last.k]].run = "running"

\* C3: between calls, the units added to the Supervisor and not yet asked to
\* stop are exactly the tracked ones: tokens[k] is the handle the Supervisor
\* returned when services[k] was started under k, and no other unit is left
\* unstopped.
C3_TrackedMirrorsSupervisor ==
    pc = "idle" =>
        /\ {t \in DOMAIN units : ~units[t].removed} = Tracked
        /\ \A k \in DOMAIN tokens :
              /\ k \in DOMAIN services
              /\ tokens[k] \in DOMAIN units
              /\ units[tokens[k]].svc = services[k]
              /\ units[tokens[k]].key = k

C3_Witness ==
    /\ pc = "idle"
    /\ last.name = "Remove"
    /\ last.found
    /\ Tracked # {}
    /\ Cardinality({t \in DOMAIN units : units[t].removed}) = 2

\* C4: Add(k, v) on an occupied key emits exactly one notification, issues
\* exactly one stop call, for the old occupant's handle, and exactly one start
\* call, for v; Get(k) afterwards returns (v, true).
C4_AddReplace ==
    (last.name = "Add" /\ last.occupied) =>
        /\ Cardinality(CallsOf("Log")) = 1
        /\ Cardinality(CallsOf("Remove")) = 1
        /\ Cardinality(CallsOf("Add")) = 1
        /\ Len(calls) = 3
        /\ \A i \in CallsOf("Remove") :
              /\ calls[i].tok = last.tok
              /\ units[calls[i].tok].removed
        /\ \A i \in CallsOf("Add") :
              /\ calls[i].svc = last.v
              /\ calls[i].tok > last.tok
        /\ GetResult(last.k) = <<last.v, TRUE>>

C4_Witness ==
    /\ last.name = "Add"
    /\ last.occupied
    /\ last.v = "svc2"
    /\ units[last.tok].svc = "svc1"
    /\ GetResult(last.k) = <<"svc2", TRUE>>

\* C5: Remove(k) on an absent key returns false, issues no stop call and leaves
\* both maps unchanged; on a present key it returns true, issues exactly one
\* stop call, for that key's handle, and k is then in neither map.
C5_RemoveResult ==
    last.name = "Remove" =>
        IF last.occupied
          THEN /\ last.found
               /\ calls = <<Call("Remove", last.tok, ZeroService)>>
               /\ units[last.tok].removed
               /\ last.k \notin DOMAIN services
               /\ last.k \notin DOMAIN tokens
          ELSE /\ ~last.found
               /\ calls = <<>>

C5_Remove ==
    /\ []C5_RemoveResult
    /\ [][\A k \in Keys : Remove(k) =>
            /\ last'.occupied = (k \in DOMAIN tokens)
            /\ k \notin DOMAIN tokens => UNCHANGED <<services, tokens, units>>]_vars

C5_Witness ==
    /\ last.name = "Remove"
    /\ last.found
    /\ Len(calls) = 1
    /\ units[last.tok].removed
    /\ last.k \notin DOMAIN services

\* C6: RemoveAndWait(k, timeout) on a present key returns true and leaves k in
\* neither map, whether the stop was confirmed or the timeout elapsed; on an
\* absent key it returns false, waits for nothing and issues no stop call.
C6_RemoveAndWait ==
    last.name = "RemoveAndWait" =>
        IF last.occupied
          THEN /\ last.found
               /\ calls = <<Call("RemoveAndWait", last.tok, ZeroService)>>
               /\ pc = "idle" =>
                     /\ last.how \in {"stopped", "timeout"}
                     /\ last.k \notin DOMAIN services
                     /\ last.k \notin DOMAIN tokens
          ELSE /\ ~last.found
               /\ pc = "idle"
               /\ last.how = "none"
               /\ calls = <<>>

C6_Witness ==
    /\ last.name = "RemoveAndWait"
    /\ pc = "idle"
    /\ last.found
    /\ last.how = "timeout"
    /\ last.k \notin DOMAIN services
    /\ last.k \notin DOMAIN tokens

\* C7: every RemoveAndWait call eventually returns, once the Supervisor
\* confirms the stop or once the timeout elapses, even if the service never
\* stops; and no other call of the registry blocks its caller.
C7_RemoveAndWaitReturns ==
    /\ [](pc = "waiting" => last.name = "RemoveAndWait")
    /\ [][(pc = "waiting" /\ pc' = "idle") => WaitOver]_vars
    /\ (pc = "waiting") ~> (pc = "idle")

C7_Witness ==
    /\ pc = "idle"
    /\ last.name = "RemoveAndWait"
    /\ last.how = "timeout"
    /\ Live(units[last.tok].run)

\* C8: in every Add on an occupied key the stop call for the old handle comes
\* before the start call for the new service, and both the stop call and the
\* notification have been made when Add returns.
C8_StopBeforeStart ==
    (last.name = "Add" /\ last.occupied) =>
        /\ CallsOf("Log") # {}
        /\ CallsOf("Add") # {}
        /\ \E i \in CallsOf("Remove") :
              /\ calls[i].tok = last.tok
              /\ \A j \in CallsOf("Add") : i < j
        /\ units[last.tok].removed

C8_Witness ==
    /\ last.name = "Add"
    /\ last.occupied
    /\ calls[1].op = "Remove"
    /\ calls[Len(calls)].op = "Add"
    /\ units[last.tok].removed

Registered(k) == k \in DOMAIN hist /\ hist[k] # Removed
Expected(k) == IF Registered(k) THEN <<hist[k], TRUE>> ELSE <<ZeroService, FALSE>>

\* C11: Get(k) changes no state of the registry and calls neither the
\* Supervisor nor the Event Logger; it returns (v, true) for the v of the
\* latest Add(k, v) that no Remove or RemoveAndWait of k followed, and the
\* zero value and false when there is no such Add.
C11_Get ==
    [][\A k \in Keys : Get(k) =>
          /\ UNCHANGED <<services, tokens, units, serve, outcome, serveRet, pc, wait>>
          /\ calls' = <<>>
          /\ <<last'.v, last'.found>> = Expected(k)]_vars

C11_Witness ==
    /\ last.name = "Get"
    /\ last.found
    /\ last.v = "svc2"
    /\ hist[last.k] = "svc2"
    /\ \E j \in DOMAIN hist : hist[j] = Removed
    /\ calls = <<>>

\* C12: Remove is idempotent: once Remove(k) or RemoveAndWait(k) was called
\* and no Add(k) followed, a further Remove(k) returns false, issues no stop
\* call and leaves the registry as the first call left it.
C12_RemoveIdempotent ==
    [][\A k \in Keys :
          (Remove(k) /\ k \in DOMAIN hist /\ hist[k] = Removed) =>
              /\ ~last'.found
              /\ calls' = <<>>
              /\ UNCHANGED <<services, tokens, units>>]_vars

\* Only k was ever named, a service was added and removed, and the last call
\* is a Remove(k) that found nothing: a second removal.
C12_Witness ==
    /\ last.name = "Remove"
    /\ ~last.found
    /\ DOMAIN hist = {last.k}
    /\ hist[last.k] = Removed
    /\ Len(units) >= 1
    /\ \A t \in DOMAIN units : units[t].removed

\* C13: Each invokes the visitor exactly once for every (key, service) pair
\* registered at the time of the call, with the service stored last at that
\* key, never for a removed key or a replaced service, and it changes no
\* registry state.
C13_Each ==
    /\ [](last.name = "Each" =>
            /\ \A i, j \in DOMAIN last.visited :
                  last.visited[i] = last.visited[j] => i = j
            /\ {last.visited[i] : i \in DOMAIN last.visited}
                  = {<<k, hist[k]>> : k \in {j \in Keys : Registered(j)}})
    /\ [][Each =>
            /\ UNCHANGED <<services, tokens, units, serve, outcome, serveRet,
                           pc, wait>>
            /\ calls' = <<>>]_vars

\* Each has visited the one remaining key after a replacement and after the
\* other key was removed.
C13_Witness ==
    /\ last.name = "Each"
    /\ Len(last.visited) = 1
    /\ \E k \in DOMAIN hist : hist[k] = Removed
    /\ \E t \in DOMAIN units : units[t].removed /\ t < tokens[last.visited[1][1]]
    /\ Len(units) = MaxTokens

\* The notifications among the collaborator calls cs.
Logs(cs) == {i \in DOMAIN cs : cs[i].op = "Log"}

\* C14: the Event Logger is called only on replacement: an Add on a key that
\* the calls made so far left occupied emits exactly one notification, an Add
\* on an absent key emits none, and no other step emits one, so the number of
\* notifications always equals the number of Adds on an occupied key.
C14_LogOnlyOnReplacement ==
    [][/\ \A k \in Keys, v \in Services : Add(k, v) =>
             Cardinality(Logs(calls')) = IF Registered(k) THEN 1 ELSE 0
       /\ (~ \E k \in Keys, v \in Services : Add(k, v)) =>
             (calls' = calls \/ Logs(calls') = {})]_vars

\* A replacing Add has notified once, after an earlier removal that did not.
C14_Witness ==
    /\ last.name = "Add"
    /\ last.occupied
    /\ Cardinality(Logs(calls)) = 1
    /\ \E j \in DOMAIN hist : hist[j] = Removed

\* C15: Serve returns exactly the outcome of the Supervisor's run loop: the
\* Supervisor's error comes back unchanged, an error comes back in no other
\* case, and nothing is returned before the run loop has ended.
C15_ServeResult ==
    /\ serve = "returned" => serveRet = outcome
    /\ serve # "returned" => serveRet = "none"
    /\ serveRet = "err" => outcome = "err"

\* Serve has returned the error of a run loop that failed on its own.
C15_Witness ==
    /\ serve = "returned"
    /\ outcome = "err"
    /\ serveRet = "err"

\* The maps m and n differ at most at the key k, which n does not hold.
Without(m, n, k) ==
    /\ DOMAIN n = DOMAIN m \ {k}
    /\ \A j \in DOMAIN n : n[j] = m[j]

\* C16: the result of RemoveAndWait and of Remove is a function of whether the
\* key was present when the call began: the return value is that presence and
\* the resulting maps are the maps at the start without the key, whether the
\* stop completed in time, timed out, or was never waited for.
C16_ResultIgnoresStopOutcome ==
    [][/\ RemoveAndWaitReturn =>
             /\ last'.found = last.occupied
             /\ Without(services, services', wait.k)
             /\ Without(tokens, tokens', wait.k)
       /\ \A k \in Keys :
             (Remove(k) \/ (\E timeout \in Timeouts : RemoveAndWait(k, timeout)))
                => /\ last'.found = (k \in DOMAIN tokens)
                   /\ pc' = "idle" => /\ Without(services, services', k)
                                      /\ Without(tokens, tokens', k)
                   /\ pc' = "waiting" => UNCHANGED <<services, tokens>>]_vars

\* A RemoveAndWait whose stop completed in time has returned true and removed
\* the key, as the one that timed out does.
C16_Witness ==
    /\ last.name = "RemoveAndWait"
    /\ pc = "idle"
    /\ last.how = "stopped"
    /\ last.found
    /\ last.k \notin DOMAIN services
    /\ last.k \notin DOMAIN tokens

\* The keys other than k keep their entries, their units are left as they
\* were, and no call issued names a handle held by another key.
LocalTo(k) ==
    /\ \A j \in Keys \ {k} :
          /\ j \in DOMAIN services' <=> j \in DOMAIN services
          /\ j \in DOMAIN tokens' <=> j \in DOMAIN tokens
          /\ j \in DOMAIN services => services'[j] = services[j]
          /\ j \in DOMAIN tokens =>
                /\ tokens'[j] = tokens[j]
                /\ units'[tokens[j]] = units[tokens[j]]
                /\ \A i \in DOMAIN calls' : calls'[i].tok # tokens[j]

\* C17: operations are local to their key: Add(k, _), Remove(k) and
\* RemoveAndWait(k, _), up to its return, leave the entries of every other key
\* unchanged and issue no start or stop call for another key's service or
\* handle.
C17_LocalToKey ==
    [][/\ \A k \in Keys :
             (\/ \E v \in Services : Add(k, v)
              \/ Remove(k)
              \/ \E timeout \in Timeouts : RemoveAndWait(k, timeout))
                => LocalTo(k)
       /\ RemoveAndWaitReturn => LocalTo(wait.k)]_vars

\* A replacement and a removal of one key happened while the other key kept
\* its first handle and its service kept running.
C17_Witness ==
    /\ last.name \in {"Remove", "RemoveAndWait"}
    /\ last.found
    /\ pc = "idle"
    /\ Len(units) = 3
    /\ \E j \in DOMAIN tokens :
          /\ j # last.k
          /\ tokens[j] = 1
          /\ units[1].run = "running"
          /\ units[1].svc = services[j]
          /\ units[2].removed /\ units[3].removed

\* A step of Add, Remove or RemoveAndWait, the latter's return included.
Mutation ==
    \/ \E k \in Keys, v \in Services : Add(k, v)
    \/ \E k \in Keys : Remove(k)
    \/ \E k \in Keys, timeout \in Timeouts : RemoveAndWait(k, timeout)
    \/ RemoveAndWaitReturn

\* C18: Serve never modifies services or tokens: only Add, Remove and
\* RemoveAndWait change an entry; after Serve has returned no service is
\* running, yet Get still answers (service, true) for every key registered
\* and Each still visits it.
C18_ServeKeepsEntries ==
    /\ [](serve = "returned" => \A t \in DOMAIN units : ~Live(units[t].run))
    /\ [](serve \in {"stopping", "returned"} =>
             \A k \in Keys : Registered(k) /\ pc = "idle" =>
                /\ k \in DOMAIN services /\ services[k] = hist[k]
                /\ k \in DOMAIN tokens)
    /\ [][/\ <<services, tokens>>' # <<services, tokens>> => Mutation
          /\ serve = "returned" =>
                /\ \A k \in Keys : Get(k) /\ Registered(k) =>
                      <<last'.v, last'.found>> = <<hist[k], TRUE>>
                /\ Each => \A k \in Keys : Registered(k) =>
                      \E i \in DOMAIN last'.visited :
                         last'.visited[i] = <<k, hist[k]>>]_vars

\* Serve has returned after a failure, and Get has found a key whose service
\* ran and is now stopped.
C18_Witness ==
    /\ serve = "returned"
    /\ serveRet = "err"
    /\ last.name = "Get"
    /\ last.found
    /\ last.k \in DOMAIN tokens
    /\ units[tokens[last.k]].run = "stopped"
    /\ ~units[tokens[last.k]].removed

\* A unit that was started and not asked to stop, whose handle is in no
\* entry of tokens and in no local variable of a call about to stop it.
Held(t) == \E p \in Threads : th[p].at \in {"add46", "rem66"} /\ th[p].tok = t
Orphan(t) ==
    /\ t \in DOMAIN units
    /\ ~units[t].removed
    /\ t \notin Range(tokens)
    /\ ~Held(t)

\* C19: the guarantees depend on the single-writer discipline.  As long as no
\* two calls were in progress at once, every started service that was not
\* asked to stop has its handle in tokens or in the call replacing it; when
\* calls interleave statement by statement a started service can lose its
\* handle, and from then on no call ever stops it.
C19_OrphanOnlyByInterleaving ==
    /\ [](~overlap => \A t \in 1..MaxTokens : ~Orphan(t))
    /\ [][\A t \in 1..MaxTokens : Orphan(t) => Orphan(t)']_vars

\* Two Adds on the same key interleaved: both calls have returned, both
\* services run, and only one of the two handles is in tokens.
C19_Witness ==
    /\ overlap
    /\ \A p \in Threads : ~Busy(p) /\ th[p].op = "Add"
    /\ Len(units) = 2
    /\ \A t \in 1..2 : units[t].run = "running" /\ units[t].key = "a"
    /\ \E t \in 1..2 : Orphan(t)
    /\ \E t \in 1..2 : tokens = [k \in {"a"} |-> t]

\* An Add and a Remove on the same key interleaved: both calls have returned,
\* the old service was stopped, and the service that Add started runs with
\* its handle in no entry of tokens.
C19_AddRemoveOrphan ==
    /\ overlap
    /\ \A p \in Threads : ~Busy(p)
    /\ {th[p].op : p \in Threads} = {"Add", "Remove"}
    /\ Len(units) = 2
    /\ units[1].removed
    /\ Orphan(2) /\ units[2].run = "running"
    /\ tokens = EmptyMap
====
